---- MODULE Spec2Model ----
(***************************************************************************)
(* A model of pyanaconda/ntp.py: the chrony configuration transform        *)
(* (get_servers_from_config / save_servers_to_config), the NTP server      *)
(* status cache (NTPServerStatusCache) and the one-time synchronisation    *)
(* helper (_one_time_sync / one_time_sync_async).                          *)
(*                                                                         *)
(* Text is modelled at the character level: a string is a sequence of      *)
(* one-character strings, a file is one such sequence, and reading a file  *)
(* splits it into lines that keep their terminating newline.               *)
(***************************************************************************)
EXTENDS Integers, Sequences, FiniteSets, TLC

VARIABLES
    conf,       \* content of the configuration file (a sequence of characters)
    prev,       \* content of the file before the latest save_servers_to_config
    arg,        \* the servers argument the caller passes to save_servers_to_config
    nsaves,     \* number of save_servers_to_config calls made so far
    servers,    \* result of the latest get_servers_from_config
    outfile,    \* content of the file at out_file_path, when the caller gives one
    op,         \* the latest operation
    cache,      \* NTPServerStatusCache._cache: hostname -> status
    probes,     \* running _check_status threads: [id, hostname, nts_enabled]
    pending,    \* the check_status call that has reset the status and not yet
                \* started its thread (a set of at most one [id, hostname, nts_enabled])
    nchecks,    \* number of check_status calls made so far (the id of the latest probe)
    checked,    \* history: hostnames check_status has been called on
    overlap,    \* history: hostnames with running probes of overlapping check_status calls
    latest,     \* history: hostname -> id of the probe of its latest check_status
    outcome,    \* history: id of a completed probe -> what ntp_server_working returned
    lastDone,   \* history: hostname -> id of the probe for it that completed most recently
    ret,        \* <<hostname, status>> of the latest get_status call
    callers,    \* position of each thread calling one_time_sync_async
    nsync,      \* number of one_time_sync_async calls made so far
    tasks,      \* the _one_time_sync threads started so far (running or ended)
    clockSets,  \* hostname -> number of times isys.set_system_time set the clock from it
    systime     \* the system time in whole seconds, 0 until it is set

confVars == <<conf, prev, arg, nsaves, servers, outfile>>
cacheVars == <<cache, probes, pending, nchecks, checked, overlap, latest, outcome, lastDone, ret>>
syncVars == <<callers, nsync, tasks, clockSets, systime>>
vars == <<conf, prev, arg, nsaves, servers, outfile, op, cache, probes, pending, nchecks,
          checked, overlap, latest, outcome, lastDone, ret, callers, nsync, tasks, clockSets,
          systime>>

----------------------------------------------------------------------------
(* Characters and strings *)

LowerSeq == <<"a","b","c","d","e","f","g","h","i","j","k","l","m",
              "n","o","p","q","r","s","t","u","v","w","x","y","z">>
UpperSeq == <<"A","B","C","D","E","F","G","H","I","J","K","L","M",
              "N","O","P","Q","R","S","T","U","V","W","X","Y","Z">>
DigitSeq == <<"0","1","2","3","4","5","6","7","8","9">>

Range(f) == {f[i] : i \in DOMAIN f}

LowerLetters == Range(LowerSeq)
UpperLetters == Range(UpperSeq)
Digits == Range(DigitSeq)

\* \s of the regular expression, and the separators of str.split()
IsSpace(c) == c \in {" ", "\t", "\n"}
\* [a-zA-Z0-9]
IsAlnum(c) == c \in LowerLetters \cup UpperLetters \cup Digits
\* [-a-zA-Z.0-9]
IsHostChar(c) == IsAlnum(c) \/ c \in {"-", "."}
\* [a-zA-Z0-9\s]
IsOptChar(c) == IsAlnum(c) \/ IsSpace(c)

\* str.lower() and str.upper() on one character
LowerChar(c) ==
    IF c \in UpperLetters
    THEN LowerSeq[CHOOSE i \in DOMAIN UpperSeq : UpperSeq[i] = c]
    ELSE c
UpperChar(c) ==
    IF c \in LowerLetters
    THEN UpperSeq[CHOOSE i \in DOMAIN LowerSeq : LowerSeq[i] = c]
    ELSE c
Lower(s) == [i \in 1..Len(s) |-> LowerChar(s[i])]
Upper(s) == [i \in 1..Len(s) |-> UpperChar(s[i])]

\* s[i:] of Python, 1-based
From(s, i) == SubSeq(s, i, Len(s))

HasPrefixAt(s, i, p) ==
    /\ i + Len(p) - 1 <= Len(s)
    /\ SubSeq(s, i, i + Len(p) - 1) = p

RECURSIVE Concat(_)
Concat(ss) == IF ss = <<>> THEN <<>> ELSE Head(ss) \o Concat(Tail(ss))

\* sep.join(parts)
RECURSIVE Join(_, _)
Join(sep, parts) ==
    IF parts = <<>> THEN <<>>
    ELSE IF Len(parts) = 1 THEN parts[1]
    ELSE parts[1] \o sep \o Join(sep, Tail(parts))

\* str.split(): the maximal runs of non-whitespace characters
RECURSIVE SplitFrom(_, _, _, _)
SplitFrom(s, i, cur, acc) ==
    IF i > Len(s) THEN (IF cur = <<>> THEN acc ELSE Append(acc, cur))
    ELSE IF IsSpace(s[i])
         THEN SplitFrom(s, i + 1, <<>>, IF cur = <<>> THEN acc ELSE Append(acc, cur))
         ELSE SplitFrom(s, i + 1, Append(cur, s[i]), acc)
Split(s) == SplitFrom(s, 1, <<>>, <<>>)

\* iterating a text file: the lines, each with its newline; only the last may lack one
LineStarts(t) == {i \in 1..Len(t) : i = 1 \/ t[i - 1] = "\n"}
LineEnd(t, i) ==
    LET nls == {j \in i..Len(t) : t[j] = "\n"}
    IN  IF nls = {} THEN Len(t) ELSE CHOOSE j \in nls : \A k \in nls : j <= k
FileLines(t) ==
    LET starts == LineStarts(t)
        nth(k) == CHOOSE i \in starts : Cardinality({j \in starts : j <= i}) = k
    IN  [k \in 1..Cardinality(starts) |-> SubSeq(t, nth(k), LineEnd(t, nth(k)))]

----------------------------------------------------------------------------
(* Module constants *)

kwServer == <<"s","e","r","v","e","r">>
kwPool == <<"p","o","o","l">>

Burst == <<"b","u","r","s","t">>
Iburst == <<"i","b","u","r","s","t">>
Nts == <<"n","t","s">>
Prefer == <<"p","r","e","f","e","r">>
Require == <<"r","e","q","u","i","r","e">>
Trust == <<"t","r","u","s","t">>
Noselect == <<"n","o","s","e","l","e","c","t">>
Xleave == <<"x","l","e","a","v","e">>
Key == <<"k","e","y">>
Minpoll == <<"m","i","n","p","o","l","l">>
Maxpoll == <<"m","a","x","p","o","l","l">>

SRV_NOARG_OPTIONS == {Burst, Iburst, Nts, Prefer, Require, Trust, Noselect, Xleave}
SRV_ARG_OPTIONS == {Key, Minpoll, Maxpoll}

\* "# These servers were defined in the installation:\n"
heading ==
    <<"#"," ","T","h","e","s","e"," ","s","e","r","v","e","r","s"," ",
      "w","e","r","e"," ","d","e","f","i","n","e","d"," ","i","n"," ",
      "t","h","e"," ","i","n","s","t","a","l","l","a","t","i","o","n",":","\n">>

\* the three statuses imported from pyanaconda.core.constants
NTP_SERVER_OK == "NTP_SERVER_OK"
NTP_SERVER_NOK == "NTP_SERVER_NOK"
NTP_SERVER_QUERY == "NTP_SERVER_QUERY"

\* the description of each status
NTP_SERVER_STATUS_DESCRIPTIONS ==
    [status \in {NTP_SERVER_OK, NTP_SERVER_NOK, NTP_SERVER_QUERY} |->
        CASE status = NTP_SERVER_OK -> "status: working"
          [] status = NTP_SERVER_NOK -> "status: not working"
          [] status = NTP_SERVER_QUERY -> "checking status"]

----------------------------------------------------------------------------
\* SRV_LINE_REGEXP, matched with re.match: optional whitespace, the keyword
\* server or pool, optional whitespace, one or more characters of the hostname
\* class, at most one whitespace character, then characters of the options
\* class up to the end of the line.
\* No part of the expression can succeed with a shorter repetition where the
\* longest one failed: whitespace, the keyword and the hostname class follow one
\* another without a common character except through the options class, which
\* contains every alphanumeric hostname character. The greedy match is the match.

RECURSIVE SkipSpace(_, _)
SkipSpace(s, i) ==
    IF i <= Len(s) /\ IsSpace(s[i]) THEN SkipSpace(s, i + 1) ELSE i

RECURSIVE SkipHost(_, _)
SkipHost(s, i) ==
    IF i <= Len(s) /\ IsHostChar(s[i]) THEN SkipHost(s, i + 1) ELSE i

\* position after the keyword that starts at i, or 0
AfterKeyword(s, i) ==
    IF HasPrefixAt(s, i, kwServer) THEN i + Len(kwServer)
    ELSE IF HasPrefixAt(s, i, kwPool) THEN i + Len(kwPool)
    ELSE 0

\* \s* between the keyword and the hostname
KeywordGap(s, i) == SkipSpace(s, i)

NoMatch == [matched |-> FALSE]

\* SRV_LINE_REGEXP.match(line): the three groups, or NoMatch
SrvLineMatch(line) ==
    LET k0 == SkipSpace(line, 1)
        k1 == AfterKeyword(line, k0)
    IN  IF k1 = 0 THEN NoMatch
        ELSE LET h0 == KeywordGap(line, k1)
                 h1 == SkipHost(line, h0)
                 o0 == IF h1 <= Len(line) /\ IsSpace(line[h1]) THEN h1 + 1 ELSE h1
             IN  IF h1 = h0 THEN NoMatch
                 ELSE IF \E j \in h1..Len(line) : ~IsOptChar(line[j]) THEN NoMatch
                 ELSE [matched |-> TRUE,
                       g1 |-> SubSeq(line, k0, k1 - 1),
                       g2 |-> SubSeq(line, h0, h1 - 1),
                       g3 |-> From(line, o0)]

IsSrvLine(line) == SrvLineMatch(line).matched

----------------------------------------------------------------------------
(* get_servers_from_config *)

\* ParseOptions with the argument of an argument option examined again as an option
RECURSIVE ParseOptions_NoSkip(_, _, _, _)
ParseOptions_NoSkip(words, i, skip_argument, options) ==
    IF i > Len(words) THEN options
    ELSE IF words[i] \in SRV_NOARG_OPTIONS
         THEN ParseOptions_NoSkip(words, i + 1, FALSE, Append(options, words[i]))
    ELSE IF words[i] \in SRV_ARG_OPTIONS /\ i + 1 <= Len(words)
         THEN ParseOptions_NoSkip(words, i + 1, TRUE,
                                  Append(options, Join(<<" ">>, SubSeq(words, i, i + 1))))
    ELSE ParseOptions_NoSkip(words, i + 1, FALSE, options)

\* the loop over the words of the options region
RECURSIVE ParseOptions(_, _, _, _)
ParseOptions(words, i, skip_argument, options) ==
    IF i > Len(words) THEN options
    ELSE IF skip_argument THEN ParseOptions(words, i + 1, FALSE, options)
    ELSE IF words[i] \in SRV_NOARG_OPTIONS
         THEN ParseOptions(words, i + 1, FALSE, Append(options, words[i]))
    ELSE IF words[i] \in SRV_ARG_OPTIONS /\ i + 1 <= Len(words)
         THEN ParseOptions(words, i + 1, TRUE,
                           Append(options, Join(<<" ">>, SubSeq(words, i, i + 1))))
    ELSE ParseOptions(words, i + 1, FALSE, options)

OptionWords(g3) == Split(Lower(g3))

\* ServerOfMatch with the type left as the keyword was written
ServerOfMatch_NoUpper(m) ==
    [type |-> m.g1,
     hostname |-> m.g2,
     options |-> ParseOptions(OptionWords(m.g3), 1, FALSE, <<>>)]

\* the TimeSourceData built from one matching line
ServerOfMatch(m) ==
    [type |-> Upper(m.g1),
     hostname |-> m.g2,
     options |-> ParseOptions(OptionWords(m.g3), 1, FALSE, <<>>)]

RECURSIVE ServersOfLines(_, _, _)
ServersOfLines(lines, i, acc) ==
    IF i > Len(lines) THEN acc
    ELSE LET m == SrvLineMatch(lines[i])
         IN  ServersOfLines(lines, i + 1,
                            IF m.matched THEN Append(acc, ServerOfMatch(m)) ELSE acc)

get_servers_from_config(text) == ServersOfLines(FileLines(text), 1, <<>>)

----------------------------------------------------------------------------
(* save_servers_to_config *)

\* args = [server.type.lower(), server.hostname] + server.options; " ".join(args) + "\n"
ServerLine(server) ==
    Join(<<" ">>, <<Lower(server.type), server.hostname>> \o server.options) \o <<"\n">>

\* KeepLine that also drops empty lines
KeepLine_DropBlank(line) == ~IsSrvLine(line) /\ line # heading /\ line # <<"\n">>

\* the copy loop: non-server lines of the old config, our heading skipped
KeepLine(line) == ~IsSrvLine(line) /\ line # heading

RECURSIVE CopyOld(_, _, _)
CopyOld(lines, i, out) ==
    IF i > Len(lines) THEN out
    ELSE CopyOld(lines, i + 1, IF KeepLine(lines[i]) THEN out \o lines[i] ELSE out)

RECURSIVE WriteServers(_, _, _)
WriteServers(srvs, i, out) ==
    IF i > Len(srvs) THEN out
    ELSE WriteServers(srvs, i + 1, out \o ServerLine(srvs[i]))

\* the text written to the new config file
NewConfig(old, srvs) ==
    CopyOld(FileLines(old), 1, WriteServers(srvs, 1, heading) \o <<"\n">>)

----------------------------------------------------------------------------
(* Inputs of the configuration transform *)

MaxLines == 2      \* lines of the original configuration file
MaxServers == 2    \* time sources passed to save_servers_to_config
MaxSaves == 2      \* successive save_servers_to_config calls
MaxWords == 4      \* words in the options region of a generated line

TYPE_SERVER == Upper(kwServer)
TYPE_POOL == Upper(kwPool)

Sp == <<" ">>
Nl == <<"\n">>

\* hostnames: plain, with an upper-case letter and '.', '-', and an IPv6 literal
HostA == <<"a","1">>
HostB == <<"B",".","c","-","d">>
HostV6 == <<"f",":","1">>

\* option strings as TimeSourceData.options holds them
OptMinpoll4 == Minpoll \o Sp \o <<"4">>
OptKeyUpper == Key \o Sp \o <<"K","1">>

TimeSources ==
    { [type |-> TYPE_SERVER, hostname |-> HostA, options |-> <<>>],
      [type |-> TYPE_POOL, hostname |-> HostB, options |-> <<Iburst, OptMinpoll4>>],
      [type |-> TYPE_SERVER, hostname |-> HostB, options |-> <<Nts, OptKeyUpper>>],
      [type |-> TYPE_SERVER, hostname |-> HostV6, options |-> <<Iburst>>] }

\* all sequences over S of length at most n
SeqUpTo(S, n) == UNION { [1..k -> S] : k \in 0..n }

ServerLists == SeqUpTo(TimeSources, MaxServers)

\* a hostname with an empty label, as a line "server a..b nts" gives it
HostDots == <<"a",".",".","b">>

\* the time sources whose status is checked
CheckedSources ==
    {src \in TimeSources : src.hostname # HostV6}
        \cup {[type |-> TYPE_SERVER, hostname |-> HostDots, options |-> <<Nts>>]}

\* lines an existing chrony.conf may hold
LinePoolKey == <<" ","p","o","o","l"," "," ","B",".","c","-","d"," ","k","e","y"," ","K","1","\n">>
LineDrift == <<"d","r","i","f","t","f","i","l","e"," ","/","d","\n">>
LineNoGap == <<"p","o","o","l","s","i","z","e"," ","5","\n">>
LineV6 == <<"s","e","r","v","e","r"," ","f",":","1"," ","i","b","u","r","s","t","\n">>
LineOpen == <<"m","a","k","e","s","t","e","p"," ","1"," ","3">>

\* complete lines, and lines without a newline (the last line of a file only)
ClosedLines == {LinePoolKey, LineDrift, LineNoGap, LineV6, heading}
OpenLines == {LineOpen, SubSeq(heading, 1, Len(heading) - 1)}

Originals ==
    { Concat(ls) \o tl :
        ls \in SeqUpTo(ClosedLines, MaxLines - 1), tl \in ClosedLines \cup OpenLines \cup {<<>>} }

\* generated single lines: every combination of the parts of a directive line
Leads == {<<>>, Sp, <<"#">>}
Keywords == {kwServer, kwPool, Upper(kwServer), <<"s","e","r","v","e">>}
Gaps == {<<>>, Sp, <<"\t"," ">>}
HostParts == {<<>>, HostA, HostB, HostV6}
Seps == {<<>>, Sp, <<" "," ">>, <<"#">>}
Ends == {<<>>, Nl}
OptTokens == {Iburst, Minpoll, <<"4">>, <<"b","o","g","u","s">>, Upper(Key)}
WordLists == SeqUpTo(OptTokens, MaxWords)

\* lines that vary the shape of the directive, with at most one option word
ShapeLines ==
    { l \o k \o g \o h \o s \o Join(Sp, w) \o e :
        l \in Leads, k \in Keywords, g \in Gaps, h \in HostParts, s \in Seps,
        w \in SeqUpTo(OptTokens, 1), e \in Ends }

\* directive lines that vary the options region
OptionLines ==
    { kwServer \o Sp \o HostB \o s \o Join(s, w) \o Nl :
        s \in {Sp, <<" ","\t">>}, w \in WordLists }

GeneratedLines == ShapeLines \cup OptionLines

----------------------------------------------------------------------------
(* Operations on the configuration file *)

\* the threads that call one_time_sync_async
Threads == {"t1", "t2"}

\* get_servers_from_config(conf_file_path), the file readable
GetServers ==
    /\ servers' = get_servers_from_config(conf)
    /\ op' = "read"
    /\ UNCHANGED <<conf, prev, arg, nsaves, outfile>>
    /\ UNCHANGED <<cacheVars, syncVars>>

\* save_servers_to_config(servers) with out_file_path=None: the new content is
\* written to a temporary file, which is then copied over the configuration file
SaveServers ==
    /\ nsaves < MaxSaves
    /\ prev' = conf
    /\ conf' = NewConfig(conf, arg)
    /\ nsaves' = nsaves + 1
    /\ op' = "save"
    /\ UNCHANGED <<arg, servers, outfile>>
    /\ UNCHANGED <<cacheVars, syncVars>>

\* what a copy that stops part-way leaves in its destination: the destination
\* is truncated when it is opened and filled from the start, so it holds a
\* proper prefix of the text (here: nothing, or the heading only)
PartialCopies(text) == { SubSeq(text, 1, k) : k \in {0, Len(heading)} }

\* the steps of save_servers_to_config that can fail when out_file_path is None
SaveSteps == {"open_old", "mkstemp", "write", "copy_open", "copy_data", "unlink"}

\* the content of the configuration file after a save_servers_to_config call
\* that fails at the given step: the steps before shutil.copyfile touch the
\* temporary file only; shutil.copyfile opens the configuration file for
\* writing and copies into it; os.unlink runs after the copy is complete
ConfAfterFailure(old, srvs, step) ==
    IF step \in {"open_old", "mkstemp", "write", "copy_open"} THEN {old}
    ELSE IF step = "copy_data" THEN PartialCopies(NewConfig(old, srvs))
    ELSE {NewConfig(old, srvs)}

\* save_servers_to_config(servers) with out_file_path=None ending in an error
SaveFails(step) ==
    /\ nsaves < MaxSaves
    /\ prev' = conf
    /\ conf' \in ConfAfterFailure(conf, arg, step)
    /\ nsaves' = nsaves + 1
    /\ op' = "save_failed"
    /\ UNCHANGED <<arg, servers, outfile>>
    /\ UNCHANGED <<cacheVars, syncVars>>

\* save_servers_to_config(servers, out_file_path=...) with an output file other
\* than the configuration file: the new content goes to the output file
SaveToOutFile ==
    /\ nsaves < MaxSaves
    /\ prev' = conf
    /\ outfile' = NewConfig(conf, arg)
    /\ nsaves' = nsaves + 1
    /\ op' = "save_out"
    /\ UNCHANGED <<conf, arg, servers>>
    /\ UNCHANGED <<cacheVars, syncVars>>

\* the steps that can fail when out_file_path is given
SaveOutSteps == {"open_old", "open_out", "write"}

\* the content of the output file after a failure: open(out_file_path, "w")
\* truncates it, and a failing write leaves part of the new content in it
OutAfterFailure(old, srvs, before, step) ==
    IF step \in {"open_old", "open_out"} THEN {before}
    ELSE PartialCopies(NewConfig(old, srvs))

\* save_servers_to_config(servers, out_file_path=...) ending in an error
SaveToOutFileFails(step) ==
    /\ nsaves < MaxSaves
    /\ prev' = conf
    /\ outfile' \in OutAfterFailure(conf, arg, outfile, step)
    /\ nsaves' = nsaves + 1
    /\ op' = "save_out_failed"
    /\ UNCHANGED <<conf, arg, servers>>
    /\ UNCHANGED <<cacheVars, syncVars>>

\* no status cached, no thread started
OtherInit ==
    /\ cache = <<>>
    /\ probes = {}
    /\ pending = {}
    /\ nchecks = 0
    /\ checked = {}
    /\ overlap = {}
    /\ latest = <<>>
    /\ outcome = <<>>
    /\ lastDone = <<>>
    /\ ret = <<>>
    /\ callers = [t \in Threads |-> [pc |-> "idle"]]
    /\ nsync = 0
    /\ tasks = <<>>
    /\ clockSets = <<>>
    /\ systime = 0

\* a configuration file and a list of time sources, then any saves and reads
InitConfig ==
    /\ conf \in Originals
    /\ arg \in ServerLists
    /\ prev = <<>>
    /\ nsaves = 0
    /\ servers = <<>>
    /\ outfile = <<>>
    /\ op = "init"
    /\ OtherInit

NextConfig == SaveServers \/ GetServers

SpecConfig == InitConfig /\ [][NextConfig]_vars

\* the same files and lists, every call free to fail at any of its steps
NextSave ==
    \/ SaveServers
    \/ \E step \in SaveSteps : SaveFails(step)
    \/ SaveToOutFile
    \/ \E step \in SaveOutSteps : SaveToOutFileFails(step)
    \/ GetServers

SpecSave == InitConfig /\ [][NextSave]_vars

\* a file of one generated line, read
InitParse ==
    /\ conf \in GeneratedLines
    /\ arg = <<>>
    /\ prev = <<>>
    /\ nsaves = 0
    /\ servers = <<>>
    /\ outfile = <<>>
    /\ op = "init"
    /\ OtherInit

NextParse == GetServers

SpecParse == InitParse /\ [][NextParse]_vars

----------------------------------------------------------------------------
(* Properties of the configuration transform *)

AllOf(s, P(_)) == \A i \in 1..Len(s) : P(s[i])

\* an argument option followed by one space and one alphanumeric argument
IsArgOption(o) ==
    \E k \in SRV_ARG_OPTIONS :
        /\ Len(o) > Len(k) + 1
        /\ SubSeq(o, 1, Len(k) + 1) = k \o Sp
        /\ AllOf(From(o, Len(k) + 2), IsAlnum)

WellFormedOption(o) == o \in SRV_NOARG_OPTIONS \/ IsArgOption(o)

WellFormedSource(src) ==
    /\ src.type \in {TYPE_SERVER, TYPE_POOL}
    /\ src.hostname # <<>>
    /\ AllOf(src.hostname, IsHostChar)
    /\ AllOf(src.options, WellFormedOption)

NoUpperCaseOptions(src) == \A i \in 1..Len(src.options) : Lower(src.options[i]) = src.options[i]

PassthroughOnly(text) == \A i \in 1..Len(FileLines(text)) : ~IsSrvLine(FileLines(text)[i])

ReadAfterOneSave == op = "read" /\ nsaves = 1 /\ PassthroughOnly(prev)

\* C1 as stated: reading the file saved from a passthrough-only original and a
\* well-formed list of time sources returns that list.
C1_RoundTripAnyArgument ==
    (ReadAfterOneSave /\ AllOf(arg, WellFormedSource)) => servers = arg

\* C1, amended: reading the file saved from a passthrough-only original and a
\* well-formed list of time sources whose options hold no upper-case letter
\* returns a list equal to the input: same length, order, types, hostnames and options.
C1_RoundTrip ==
    (ReadAfterOneSave /\ AllOf(arg, WellFormedSource) /\ AllOf(arg, NoUpperCaseOptions))
        => servers = arg

C1_Witness ==
    /\ ReadAfterOneSave
    /\ prev # <<>>
    /\ AllOf(arg, WellFormedSource)
    /\ AllOf(arg, NoUpperCaseOptions)
    /\ Len(arg) = 2
    /\ arg[1] # arg[2]
    /\ \E i \in 1..2 : \E j \in 1..Len(arg[i].options) : IsArgOption(arg[i].options[j])
    /\ servers = arg

RenderedLines(srvs) == [i \in 1..Len(srvs) |-> ServerLine(srvs[i])]

IsHeadingLine(line) == line = heading

\* the lines of a text that are server or pool lines: those of the directive
\* grammar and those save_servers_to_config writes for the given time sources
DirectiveLines(text, srvs) ==
    SelectSeq(FileLines(text),
              LAMBDA line : IsSrvLine(line) \/ line \in Range(RenderedLines(srvs)))

\* C2: after n >= 1 successive saves of the same list the output holds exactly
\* one heading line, and its server and pool lines are exactly the lines
\* rendered from the list, in list order.
C2_IdempotentRewrite ==
    (op = "save" /\ nsaves >= 1) =>
        /\ Len(SelectSeq(FileLines(conf), IsHeadingLine)) = 1
        /\ DirectiveLines(conf, arg) = RenderedLines(arg)

\* a line of the original that save_servers_to_config has to keep
IsPassthrough(line) == ~IsSrvLine(line) /\ line # heading

RECURSIVE OptionsOfWords(_)
OptionsOfWords(ws) ==
    IF ws = <<>> THEN <<>>
    ELSE IF Head(ws) \in SRV_NOARG_OPTIONS THEN <<Head(ws)>> \o OptionsOfWords(Tail(ws))
    ELSE IF Head(ws) \in SRV_ARG_OPTIONS /\ Len(ws) >= 2
         THEN <<Head(ws) \o Sp \o ws[2]>> \o OptionsOfWords(Tail(Tail(ws)))
    ELSE OptionsOfWords(Tail(ws))

Bogus == <<"b","o","g","u","s">>
ExampleLine ==
    kwServer \o Sp \o HostB \o Sp \o Join(Sp, <<Iburst, Minpoll, <<"4">>, Bogus>>) \o Nl

\* C4: the options of a directive line are its option words scanned left to
\* right: a flag option alone, an argument option with the word after it (which
\* is not examined again), anything else dropped; 'iburst minpoll 4 bogus'
\* yields iburst and 'minpoll 4'.
C4_OptionParsing ==
    (op = "read" /\ IsSrvLine(conf)) =>
        /\ Len(servers) = 1
        /\ servers[1].options = OptionsOfWords(Split(Lower(SrvLineMatch(conf).g3)))
        /\ conf = ExampleLine => servers[1].options = <<Iburst, OptMinpoll4>>

\* an argument option consumed a word that is itself an option name, and an
\* argument option in last position was dropped
C4_Witness ==
    /\ op = "read"
    /\ conf = kwServer \o Sp \o HostB \o Sp \o Join(Sp, <<Minpoll, Iburst, Iburst, Minpoll>>) \o Nl
    /\ Len(servers) = 1
    /\ servers[1].options = <<Minpoll \o Sp \o Iburst, Iburst>>

\* the directive grammar as the claim words it: at least one whitespace
\* character between the keyword and the hostname
ClaimedDirective(line) ==
    LET k0 == SkipSpace(line, 1)
        k1 == AfterKeyword(line, k0)
        h0 == SkipSpace(line, k1)
        h1 == SkipHost(line, h0)
    IN  /\ k1 # 0
        /\ h0 > k1
        /\ h1 > h0
        /\ h1 <= Len(line) => IsSpace(line[h1])
        /\ \A j \in h1..Len(line) : IsOptChar(line[j])

\* C5: get_servers_from_config extracts a time source from a line if and only
\* if the line has the claimed grammar; a keyword immediately followed by
\* hostname characters makes a passthrough line.
C5_DirectiveGrammar ==
    op = "read" => (servers # <<>> <=> ClaimedDirective(conf))

----------------------------------------------------------------------------
(* NTPServerStatusCache *)

MaxChecks == 2     \* check_status calls in one behaviour

\* a mapping with one key set, as dict[key] = value does
DictSet(d, key, value) ==
    [k \in DOMAIN d \cup {key} |-> IF k = key THEN value ELSE d[k]]

\* get_status with NTP_SERVER_NOK as the default of the lookup
get_status_DefaultNok(c, hostname) ==
    IF hostname \in DOMAIN c THEN c[hostname] ELSE NTP_SERVER_NOK

\* get_status: self._cache.get(server.hostname, NTP_SERVER_QUERY)
get_status(c, hostname) ==
    IF hostname \in DOMAIN c THEN c[hostname] ELSE NTP_SERVER_QUERY

\* get_status_description: the description of the status, a KeyError when the
\* status has none
get_status_description(c, hostname) ==
    LET status == get_status(c, hostname)
    IN  IF status \in DOMAIN NTP_SERVER_STATUS_DESCRIPTIONS
        THEN NTP_SERVER_STATUS_DESCRIPTIONS[status]
        ELSE "KeyError"

\* _set_status that replaces the mapping: self._cache = {hostname: status}
set_status_Replace(c, hostname, status) == [k \in {hostname} |-> status]

\* _set_status that resets by removing the entry: self._cache.pop(hostname, None)
set_status_PopOnReset(c, hostname, status) ==
    IF status = NTP_SERVER_QUERY
    THEN [k \in DOMAIN c \ {hostname} |-> c[k]]
    ELSE DictSet(c, hostname, status)

\* _set_status: self._cache[hostname] = status
set_status(c, hostname, status) == DictSet(c, hostname, status)

\* how the request of a probe can end: the plain NTP request, or the TCP
\* connection to the NTS-KE port when NTS is enabled
ProbeOutcomes(nts_enabled) ==
    IF nts_enabled THEN {"ok", "gaierror", "error"}
    ELSE {"ok", "NTPException", "gaierror", "error"}

\* ntp_server_working: False on each of the three exceptions, True otherwise
ntp_server_working(request) == request \notin {"NTPException", "gaierror", "error"}

\* the hostname is encoded for name resolution before anything is sent; the
\* encoding fails with UnicodeError on an empty label (a leading dot, two dots
\* in a row)
HostnameEncodes(hostname) ==
    \A i \in DOMAIN hostname : hostname[i] = "." => (i > 1 /\ hostname[i - 1] # ".")

\* how the request of a probe for the hostname can end
RequestsOf(hostname, nts_enabled) ==
    IF HostnameEncodes(hostname) THEN ProbeOutcomes(nts_enabled) ELSE {"UnicodeError"}

\* an exception none of the except clauses of ntp_server_working names leaves
\* ntp_server_working, _check_status and so the thread
Propagates(request) == request \notin {"ok", "NTPException", "gaierror", "error"}

\* the status _check_status stores for a result of ntp_server_working
StatusOfResult_Swapped(result) == IF result THEN NTP_SERVER_NOK ELSE NTP_SERVER_OK
StatusOfResult(result) == IF result THEN NTP_SERVER_OK ELSE NTP_SERVER_NOK

HostnamesOf(srcs) == {src.hostname : src \in srcs}
ProbesOf(hostname) == {p \in probes : p.hostname = hostname}

\* the status check_status resets an entry to
ResetStatus_Keep(c, hostname) == get_status(c, hostname)
ResetStatus(c, hostname) == NTP_SERVER_QUERY

\* get_status(server)
GetStatus(server) ==
    /\ ret' = <<server.hostname, get_status(cache, server.hostname)>>
    /\ op' = "get_status"
    /\ UNCHANGED <<cache, probes, pending, nchecks, checked, overlap, latest, outcome, lastDone>>
    /\ UNCHANGED <<confVars, syncVars>>

\* get_status_description(server)
GetStatusDescription(server) ==
    /\ ret' = <<server.hostname, get_status_description(cache, server.hostname)>>
    /\ op' = "get_status_description"
    /\ UNCHANGED <<cache, probes, pending, nchecks, checked, overlap, latest, outcome, lastDone>>
    /\ UNCHANGED <<confVars, syncVars>>

\* check_status(server) up to the reset of the status: the caller (the thread
\* of the user interface) stores NTP_SERVER_QUERY and goes on to threadMgr.add
CheckStatus(server) ==
    LET hostname == server.hostname
        nts_enabled == Nts \in Range(server.options)
        id == nchecks + 1
    IN  /\ nchecks < MaxChecks
        /\ pending = {}
        /\ cache' = set_status(cache, hostname, ResetStatus(cache, hostname))
        /\ pending' = {[id |-> id, hostname |-> hostname, nts_enabled |-> nts_enabled]}
        /\ nchecks' = id
        /\ checked' = checked \cup {hostname}
        /\ overlap' = IF ProbesOf(hostname) # {} THEN overlap \cup {hostname}
                      ELSE overlap \ {hostname}
        /\ latest' = DictSet(latest, hostname, id)
        /\ op' = "check_status"
        /\ UNCHANGED <<probes, outcome, lastDone, ret>>
        /\ UNCHANGED <<confVars, syncVars>>

\* threadMgr.add(AnacondaThread(prefix=...)): the thread it is given is
\* registered under a name of its own and started, whatever else is running
StartThread(running, call) == running \cup {call}

\* check_status from threadMgr.add on, with the thread added twice
CheckStatusStart_Twice ==
    /\ pending # {}
    /\ \E call \in pending :
          probes' = StartThread(StartThread(probes, call), [call EXCEPT !.id = 0 - call.id])
    /\ pending' = {}
    /\ op' = "check_started"
    /\ UNCHANGED <<cache, nchecks, checked, overlap, latest, outcome, lastDone, ret>>
    /\ UNCHANGED <<confVars, syncVars>>

\* check_status from threadMgr.add on: the thread of _check_status(hostname,
\* nts_enabled) is started and the call returns
CheckStatusStart ==
    /\ pending # {}
    /\ \E call \in pending : probes' = StartThread(probes, call)
    /\ pending' = {}
    /\ op' = "check_started"
    /\ UNCHANGED <<cache, nchecks, checked, overlap, latest, outcome, lastDone, ret>>
    /\ UNCHANGED <<confVars, syncVars>>

\* the thread of _check_status(hostname, nts_enabled) runs to its end: it
\* stores the status of the result, or is left by an exception before the store
ProbeDone(p, request) ==
    LET result == ntp_server_working(request)
    IN  /\ p \in probes
        /\ request \in RequestsOf(p.hostname, p.nts_enabled)
        /\ IF Propagates(request)
           THEN /\ cache' = cache
                /\ outcome' = outcome
                /\ op' = "probe_raised"
           ELSE /\ cache' = set_status(cache, p.hostname, StatusOfResult(result))
                /\ outcome' = DictSet(outcome, p.id, result)
                /\ op' = "probe_done"
        /\ probes' = probes \ {p}
        /\ lastDone' = DictSet(lastDone, p.hostname, p.id)
        /\ overlap' = IF ProbesOf(p.hostname) = {p} /\ p.hostname \notin HostnamesOf(pending)
                      THEN overlap \ {p.hostname} ELSE overlap
        /\ UNCHANGED <<pending, nchecks, checked, latest, ret>>
        /\ UNCHANGED <<confVars, syncVars>>

ProbeIds == 1..MaxChecks
ProbeRequests == ProbeOutcomes(FALSE) \cup ProbeOutcomes(TRUE) \cup {"UnicodeError"}

\* the probe thread with the given id ends
ProbeEnds(id) == \E p \in probes : p.id = id /\ \E r \in ProbeRequests : ProbeDone(p, r)

InitCache ==
    /\ conf = <<>>
    /\ arg = <<>>
    /\ prev = <<>>
    /\ nsaves = 0
    /\ servers = <<>>
    /\ outfile = <<>>
    /\ op = "init"
    /\ OtherInit

NextCache ==
    \/ \E server \in CheckedSources : GetStatus(server)
    \/ \E server \in CheckedSources : GetStatusDescription(server)
    \/ \E server \in CheckedSources : CheckStatus(server)
    \/ CheckStatusStart
    \/ \E id \in ProbeIds : ProbeEnds(id)

SpecCache == InitCache /\ [][NextCache]_vars

\* every probe thread that was started runs to its end: the requests of
\* ntp_server_working are bounded by a timeout
SpecCacheFair == SpecCache /\ \A id \in ProbeIds : WF_vars(ProbeEnds(id))

----------------------------------------------------------------------------
(* Properties of the status cache *)

Hostnames == HostnamesOf(TimeSources \cup CheckedSources)
Final == {NTP_SERVER_OK, NTP_SERVER_NOK}

\* what get_status returns for a hostname, now and after the step
Status(h) == IF h \in DOMAIN cache THEN cache[h] ELSE NTP_SERVER_QUERY
StatusNext(h) == IF h \in DOMAIN cache' THEN cache'[h] ELSE NTP_SERVER_QUERY

\* a change to UNKNOWN by a check_status call, or from UNKNOWN by a probe
ByCheckStatus(h) == StatusNext(h) = NTP_SERVER_QUERY /\ op' = "check_status"
ByProbeFromUnknown(h) ==
    Status(h) = NTP_SERVER_QUERY /\ StatusNext(h) \in Final /\ op' = "probe_done"

\* C6 as stated: a status changes only to UNKNOWN by check_status or from
\* UNKNOWN to REACHABLE or UNREACHABLE by a probe completion; never directly
\* between REACHABLE and UNREACHABLE.
C6_OnlyThroughUnknown ==
    [][\A h \in Hostnames :
          Status(h) # StatusNext(h) => ByCheckStatus(h) \/ ByProbeFromUnknown(h)]_vars

\* C6, amended: as C6, except that a probe completion changes a status directly
\* between REACHABLE and UNREACHABLE when check_status was called for the
\* hostname while an earlier probe for it was still running.
C6_StatusTransitions ==
    [][\A h \in Hostnames :
          Status(h) # StatusNext(h) =>
              \/ ByCheckStatus(h)
              \/ ByProbeFromUnknown(h)
              \/ /\ h \in overlap
                 /\ Status(h) \in Final /\ StatusNext(h) \in Final
                 /\ op' = "probe_done"]_vars

\* a status went to a final value, was reset by a check and went to the other one
C6_Witness ==
    \E h \in Hostnames :
        /\ h \notin overlap
        /\ Status(h) = NTP_SERVER_NOK
        /\ ProbesOf(h) = {}
        /\ checked = {h}
        /\ \E i, j \in DOMAIN outcome : i < j /\ outcome[i] /\ ~outcome[j] /\ latest[h] = j

\* C7: get_status returns UNKNOWN for a hostname check_status was never called
\* on, and a get_status call changes neither the cache nor the running probes.
C7_GetStatusPureRead ==
    [][op' = "get_status" =>
          /\ cache' = cache
          /\ probes' = probes
          /\ ret'[1] \notin checked => ret'[2] = NTP_SERVER_QUERY]_vars

\* get_status was called on a hostname never checked while another hostname has
\* a final status, and on a checked hostname
C7_Witness ==
    /\ op = "get_status"
    /\ ret[1] \notin checked
    /\ ret[1] \notin DOMAIN cache
    /\ \E h \in checked : cache[h] \in Final
    /\ probes # {}

\* the id of the probe of the latest check_status for a hostname, 0 if none
LatestOf(h) == IF h \in DOMAIN latest THEN latest[h] ELSE 0

\* the probe with the given id has completed and its outcome is the status of h
OutcomeIsStatus(h, id) ==
    /\ id \in DOMAIN outcome
    /\ outcome[id] => Status(h) = NTP_SERVER_OK
    /\ ~outcome[id] => Status(h) = NTP_SERVER_NOK

\* the latest probe of a hostname has completed and its outcome is the status
Settled(h) == OutcomeIsStatus(h, LatestOf(h))

\* C8 as stated, its second half: once the probe of the latest check_status has
\* completed and its outcome is the status, the status stays until the next
\* check_status for the hostname.
C8_StaysUntilNextCheck ==
    [][\A h \in Hostnames :
          (Settled(h) /\ latest'[h] = latest[h]) => StatusNext(h) = Status(h)]_vars

\* the probe with the given id was started and ended without reporting
ProbeRaised(id) ==
    /\ id <= nchecks
    /\ id \notin DOMAIN outcome
    /\ \A p \in probes \cup pending : p.id # id

\* C8, amended: after check_status, with the probes scheduled fairly and no
\* further check_status for the hostname, the status eventually is the outcome
\* the probe of that call reported, if it reported one; from then on it stays
\* until the next check_status for the hostname or until a probe of an earlier
\* check_status for it completes.
C8_EventualStatus ==
    /\ \A id \in ProbeIds :
          (\E p \in probes : p.id = id /\ LatestOf(p.hostname) = id)
              ~> \/ \A h \in Hostnames : LatestOf(h) # id
                 \/ \E h \in Hostnames : LatestOf(h) = id /\ OutcomeIsStatus(h, id)
                 \/ ProbeRaised(id)
    /\ [][\A h \in Hostnames :
            (Settled(h) /\ latest'[h] = latest[h] /\ ProbesOf(h) = {})
                => StatusNext(h) = Status(h)]_vars

\* both outcomes were reported and are the statuses of their hostnames
C8_Witness ==
    \E g, h \in Hostnames :
        /\ Settled(g) /\ Settled(h)
        /\ ProbesOf(g) = {} /\ ProbesOf(h) = {}
        /\ Status(g) = NTP_SERVER_OK /\ Status(h) = NTP_SERVER_NOK

----------------------------------------------------------------------------
(* one_time_sync_async and _one_time_sync *)

MaxSyncCalls == 2  \* one_time_sync_async calls in one behaviour

THREAD_SYNC_TIME_BASENAME == "THREAD_SYNC_TIME_BASENAME"

\* thread_name = "%s_%s" % (THREAD_SYNC_TIME_BASENAME, server.hostname)
ThreadName(hostname) == <<THREAD_SYNC_TIME_BASENAME, "_">> \o hostname

\* a thread is registered from its start until its target returns or raises
Running(task) == task.pc \in {"request", "set_system_time", "callback"}

\* threadMgr.get(thread_name): whether a thread of that name is registered
threadMgr_get(name) == \E i \in DOMAIN tasks : tasks[i].name = name /\ Running(tasks[i])

\* threadMgr.add(AnacondaThread(name, target=_one_time_sync, args=(server, callback))):
\* the thread is registered under its name and started
threadMgr_add(name, server, callback) ==
    Append(tasks, [name |-> name, hostname |-> server.hostname, callback |-> callback,
                   pc |-> "request", success |-> FALSE, called |-> 0,
                   request |-> "none", tx_time |-> 0,
                   set_calls |-> 0, set_arg |-> 0, set_result |-> "none"])

\* one_time_sync_async up to the test of threadMgr.get(thread_name): the call
\* returns if a thread of the name is running, otherwise goes on to threadMgr.add
SyncAsyncCheck(t, server, callback) ==
    /\ callers[t].pc = "idle"
    /\ nsync < MaxSyncCalls
    /\ nsync' = nsync + 1
    /\ IF threadMgr_get(ThreadName(server.hostname))
       THEN /\ callers' = callers
            /\ op' = "sync_dropped"
       ELSE /\ callers' = [callers EXCEPT ![t] =
                               [pc |-> "add", server |-> server, callback |-> callback]]
            /\ op' = "sync_checked"
    /\ UNCHANGED <<tasks, clockSets, systime>>
    /\ UNCHANGED <<confVars, cacheVars>>

\* one_time_sync_async from threadMgr.add on
SyncAsyncAdd(t) ==
    /\ callers[t].pc = "add"
    /\ tasks' = threadMgr_add(ThreadName(callers[t].server.hostname),
                              callers[t].server, callers[t].callback)
    /\ callers' = [callers EXCEPT ![t] = [pc |-> "idle"]]
    /\ op' = "sync_added"
    /\ UNCHANGED <<nsync, clockSets, systime>>
    /\ UNCHANGED <<confVars, cacheVars>>

\* how client.request(server.hostname) can end
RequestOutcomes == {"ok", "NTPException", "gaierror", "error"}

\* where _one_time_sync goes after the request: the exceptions it catches set
\* success = False, any other exception leaves the function
AfterRequest(request) ==
    IF request = "ok" THEN "set_system_time"
    ELSE IF request \in {"NTPException", "gaierror"} THEN "callback"
    ELSE "raised"

\* the transmit timestamps a reply can carry, in tenths of a second (tx_time
\* is a float; it is negative for a reply whose timestamp is before 1970)
TxTimes == {17, 0 - 15}

\* int(x) of a float of Python, on tenths: rounding to the nearest whole number
int_Round(tenths) == (tenths + 5) \div 10

\* int(x) of a float of Python, on tenths: the fraction is dropped (towards zero)
int(tenths) == IF tenths >= 0 THEN tenths \div 10 ELSE 0 - ((0 - tenths) \div 10)

\* _one_time_sync: results = client.request(server.hostname)
SyncRequest(i, request) ==
    /\ i \in DOMAIN tasks
    /\ tasks[i].pc = "request"
    /\ \E tx_time \in (IF request = "ok" THEN TxTimes ELSE {0}) :
          tasks' = [tasks EXCEPT ![i].pc = AfterRequest(request),
                                 ![i].request = request,
                                 ![i].tx_time = tx_time]
    /\ op' = "sync_request"
    /\ UNCHANGED <<callers, nsync, clockSets, systime>>
    /\ UNCHANGED <<confVars, cacheVars>>

\* _one_time_sync with every failure of isys.set_system_time caught and turned
\* into success = False
SyncSetTime_Swallow(i, done) ==
    /\ i \in DOMAIN tasks
    /\ tasks[i].pc = "set_system_time"
    /\ tasks' = [tasks EXCEPT ![i].pc = "callback", ![i].success = done,
                              ![i].set_calls = @ + 1,
                              ![i].set_arg = int(tasks[i].tx_time),
                              ![i].set_result = IF done THEN "done" ELSE "failed"]
    /\ systime' = IF done THEN int(tasks[i].tx_time) ELSE systime
    /\ clockSets' = clockSets
    /\ op' = "sync_set_time"
    /\ UNCHANGED <<callers, nsync>>
    /\ UNCHANGED <<confVars, cacheVars>>

\* _one_time_sync: isys.set_system_time(int(results.tx_time)); success = True.
\* A failure of the call is not caught and leaves the function.
SyncSetTime(i, done) ==
    /\ i \in DOMAIN tasks
    /\ tasks[i].pc = "set_system_time"
    /\ IF done
       THEN /\ tasks' = [tasks EXCEPT ![i].pc = "callback", ![i].success = TRUE,
                                      ![i].set_calls = @ + 1,
                                      ![i].set_arg = int(tasks[i].tx_time),
                                      ![i].set_result = "done"]
            /\ systime' = int(tasks[i].tx_time)
            /\ clockSets' = DictSet(clockSets, tasks[i].hostname,
                                    IF tasks[i].hostname \in DOMAIN clockSets
                                    THEN clockSets[tasks[i].hostname] + 1 ELSE 1)
       ELSE /\ tasks' = [tasks EXCEPT ![i].pc = "raised",
                                      ![i].set_calls = @ + 1,
                                      ![i].set_arg = int(tasks[i].tx_time),
                                      ![i].set_result = "failed"]
            /\ systime' = systime
            /\ clockSets' = clockSets
    /\ op' = "sync_set_time"
    /\ UNCHANGED <<callers, nsync>>
    /\ UNCHANGED <<confVars, cacheVars>>

\* _one_time_sync: if callback is not None: callback(success); return success
SyncCallback(i) ==
    /\ i \in DOMAIN tasks
    /\ tasks[i].pc = "callback"
    /\ tasks' = [tasks EXCEPT ![i].pc = "returned",
                              ![i].called = IF tasks[i].callback THEN @ + 1 ELSE @]
    /\ op' = "sync_callback"
    /\ UNCHANGED <<callers, nsync, clockSets, systime>>
    /\ UNCHANGED <<confVars, cacheVars>>

TaskIds == 1..MaxSyncCalls

\* the time sources the clock is synchronised with
SyncSources == {src \in TimeSources : src.hostname # HostV6}

InitSync ==
    /\ conf = <<>>
    /\ arg = <<>>
    /\ prev = <<>>
    /\ nsaves = 0
    /\ servers = <<>>
    /\ outfile = <<>>
    /\ op = "init"
    /\ OtherInit

NextSync ==
    \/ \E t \in Threads, server \in SyncSources, callback \in BOOLEAN :
            SyncAsyncCheck(t, server, callback)
    \/ \E t \in Threads : SyncAsyncAdd(t)
    \/ \E i \in TaskIds, request \in RequestOutcomes : SyncRequest(i, request)
    \/ \E i \in TaskIds, done \in BOOLEAN : SyncSetTime(i, done)
    \/ \E i \in TaskIds : SyncCallback(i)

SpecSync == InitSync /\ [][NextSync]_vars

----------------------------------------------------------------------------
(* Properties of the synchronisation helper *)

RunningTasks(h) == {i \in DOMAIN tasks : tasks[i].hostname = h /\ Running(tasks[i])}
ClockSetsOf(h) == IF h \in DOMAIN clockSets THEN clockSets[h] ELSE 0

Ended(task) == task.pc \in {"returned", "raised"}

\* C10: when _one_time_sync has ended with a callback given, the callback was
\* invoked exactly once, on every path through the function.
C10_CallbackOnce ==
    \A i \in DOMAIN tasks :
        (Ended(tasks[i]) /\ tasks[i].callback) => tasks[i].called = 1

----------------------------------------------------------------------------
(* Claims on failing and repeated saves *)

\* C11: whenever save_servers_to_config ends in an error, whichever step
\* failed, the configuration file holds exactly what it held before the call.
C11_FailedSaveLeavesOriginal ==
    op \in {"save_failed", "save_out_failed"} => conf = prev

\* C18: saving the same list a second time, over the output of the first save,
\* leaves the whole file byte-identical: nothing is added, the file does not grow.
C18_WholeDocumentFixpoint ==
    (op = "save" /\ nsaves = 2) => conf = prev

----------------------------------------------------------------------------
(* Probes of one hostname, and the cache as a whole *)

ProbesOfNext(h) == {p \in probes' : p.hostname = h}
LatestNext(h) == IF h \in DOMAIN latest' THEN latest'[h] ELSE 0
LastDoneOf(h) == IF h \in DOMAIN lastDone THEN lastDone[h] ELSE 0

\* C12 as stated: at every moment at most one probe thread per hostname is
\* running, also when check_status is called while a probe for the hostname runs.
C12_SingleProbeInFlight ==
    \A h \in Hostnames : Cardinality(ProbesOf(h)) <= 1

\* C12, amended: every check_status call starts exactly one probe thread for
\* its hostname, whether or not a probe for that hostname is running; at most
\* one probe per hostname is running unless check_status was called for the
\* hostname while an earlier probe for it was still running.
C12_OneProbePerCall ==
    /\ [](\A h \in Hostnames : h \notin overlap => Cardinality(ProbesOf(h)) <= 1)
    /\ [][\A h \in Hostnames :
            Cardinality(ProbesOfNext(h)) > Cardinality(ProbesOf(h)) =>
                /\ op' = "check_started"
                /\ Cardinality(ProbesOfNext(h)) = Cardinality(ProbesOf(h)) + 1
                /\ \E p \in ProbesOfNext(h) \ ProbesOf(h) : p.id = LatestOf(h)]_vars

\* two probes of one hostname are running, started by overlapping calls
C12_Witness ==
    \E h \in Hostnames :
        /\ Cardinality(ProbesOf(h)) = 2
        /\ h \in overlap
        /\ pending = {}

\* C13: once every probe of a checked hostname has completed and no further
\* check_status is under way, the status is the outcome of the probe that
\* completed last, whichever call started it; it is not UNKNOWN.
C13_LastCompletedWins ==
    \A h \in Hostnames :
        (h \in checked /\ ProbesOf(h) = {} /\ h \notin HostnamesOf(pending))
            => OutcomeIsStatus(h, LastDoneOf(h))

\* C14 as stated: with no other probe of the hostname running when check_status
\* returns (so none until the probe of the call completes), get_status returns
\* UNKNOWN from the return on.
C14_UnknownFromReturn ==
    [][\A h \in Hostnames :
          (op' = "check_started" /\ ProbesOf(h) = {} /\ ProbesOfNext(h) # {})
              => StatusNext(h) = NTP_SERVER_QUERY]_vars

\* C14, amended: the thread of a check_status call is started after the call
\* has stored UNKNOWN, so it has not written before; and when no probe of the
\* hostname is running at the time the call stores UNKNOWN, get_status returns
\* UNKNOWN from then until the probe of the call completes.
C14_UnknownUntilProbeDone ==
    /\ \A call \in pending : call \notin probes /\ call.id \notin DOMAIN outcome
    /\ \A h \in Hostnames :
          (/\ h \notin overlap
           /\ \/ h \in HostnamesOf(pending)
              \/ \E p \in ProbesOf(h) : p.id = LatestOf(h))
              => Status(h) = NTP_SERVER_QUERY

\* a hostname with a final status was checked again, no probe of it running:
\* its status is UNKNOWN while the new probe runs
C14_Witness ==
    \E h \in Hostnames :
        /\ h \notin overlap
        /\ LastDoneOf(h) = 1 /\ 1 \in DOMAIN outcome /\ outcome[1]
        /\ \E p \in ProbesOf(h) : p.id = 2
        /\ Status(h) = NTP_SERVER_QUERY

\* a step of check_status or of a probe for the hostname
Acted(h) ==
    \/ op' = "check_status" /\ LatestNext(h) # LatestOf(h)
    \/ op' = "probe_done" /\ \E p \in probes \ probes' : p.hostname = h

\* C17: get_status depends on the hostname of the time source only, and the
\* entry of a hostname (present or not, and its status) changes only in a step
\* of check_status or of a probe for that very hostname.
C17_KeyedByHostname ==
    [][/\ \A h \in Hostnames :
             (StatusNext(h) # Status(h) \/ (h \in DOMAIN cache') # (h \in DOMAIN cache))
                 => Acted(h)
       /\ op' = "get_status" =>
             \A src \in CheckedSources :
                 src.hostname = ret'[1] => ret'[2] = get_status(cache, src.hostname)]_vars

\* a hostname kept its final status while another hostname was checked and
\* its probe runs, and get_status was called on the hostname two sources share
C17_Witness ==
    \E g, h \in Hostnames :
        /\ g # h
        /\ Status(g) \in Final
        /\ LatestOf(g) = 1 /\ LatestOf(h) = 2
        /\ ProbesOf(h) # {}
        /\ Status(h) = NTP_SERVER_QUERY
        /\ op = "get_status"
        /\ Cardinality({src \in CheckedSources : src.hostname = ret[1]}) = 2

\* C19: every status stored is one of the three statuses, get_status_description
\* finds a description for every time source, and no hostname leaves the cache.
C19_CacheInvariant ==
    /\ [](\A h \in DOMAIN cache :
             cache[h] \in {NTP_SERVER_QUERY, NTP_SERVER_OK, NTP_SERVER_NOK})
    /\ [](\A src \in CheckedSources :
             get_status_description(cache, src.hostname) # "KeyError")
    /\ [][DOMAIN cache \subseteq DOMAIN cache']_vars

\* two hostnames are cached, one checked again after its final status, and a
\* description was asked for
C19_Witness ==
    /\ op = "get_status_description"
    /\ Cardinality(DOMAIN cache) = 2
    /\ \E g, h \in DOMAIN cache : cache[g] \in Final /\ cache[h] = NTP_SERVER_QUERY
    /\ ret[2] \in {"status: working", "status: not working"}

----------------------------------------------------------------------------
(* The clock and the outcome of _one_time_sync *)

\* the whole number of seconds is the timestamp with its fraction dropped
WholeSecondsOf(seconds, tenths) ==
    IF tenths >= 0
    THEN seconds * 10 <= tenths /\ tenths < seconds * 10 + 10
    ELSE tenths <= seconds * 10 /\ seconds * 10 - 10 < tenths

\* the system time changes only by a set_system_time call that does not fail,
\* to the truncated timestamp of a request that succeeded
ClockChangesOnlyOnSuccess ==
    [][systime' # systime =>
          \E i \in DOMAIN tasks :
              /\ tasks[i].pc = "set_system_time" /\ tasks[i].request = "ok"
              /\ tasks'[i].set_result = "done"
              /\ WholeSecondsOf(systime', tasks[i].tx_time)]_vars

\* never a clock-set, and a return of false, when the request failed with
\* NTPException or gaierror
FailedRequestPaths ==
    \A i \in DOMAIN tasks :
        (Ended(tasks[i]) /\ tasks[i].request \in {"NTPException", "gaierror"}) =>
            /\ tasks[i].set_calls = 0
            /\ tasks[i].pc = "returned" /\ ~tasks[i].success

====
